---- MODULE Spec2Model ----
(***************************************************************************)
(* SealGate: encode.py (chunking, two-scope dictionary, Re-Pair style      *)
(* rule induction, template writer) and decode.py (memoized recursive      *)
(* expander).  Three specifications share the variables:                   *)
(*   Spec        encode_file followed by decode_template on its template   *)
(*   SpecRules   build_hierarchical_rules on arbitrary S/L sequences        *)
(*   SpecDecode  decode_template on arbitrary (also malformed) templates   *)
(***************************************************************************)
EXTENDS Integers, Sequences, FiniteSets, TLC

VARIABLES
    pc,                 \* position of the run
    input,              \* bytes of the input file
    chunk_size,         \* encode_file(chunk_size=)
    contexts,           \* encode_file(contexts=), a list of context names
    min_pair_freq,      \* build_hierarchical_rules(min_pair_freq=)
    max_new_symbols,    \* build_hierarchical_rules(max_new_symbols=)
    dict_file,          \* the global dictionary file, or absent (dict_path=None)
    global_dict,        \* encode_file: sym -> entry, "freq" stripped
    hash_to_sym,        \* encode_file: fingerprint -> global symbol
    sequence,           \* encode_file: the initial symbol sequence
    local_symbol_map,   \* encode_file: fingerprint -> local symbol
    total_chunks,       \* encode_file: chunks read by the first pass
    template_dict,      \* encode_file: sym -> entry (ordered context map)
    seen,               \* encode_file: fingerprints captured by the second pass
    pos,                \* chunks consumed from the stream of the running pass
    seq,                \* build_hierarchical_rules: the working sequence
    rules,              \* build_hierarchical_rules: rule symbol -> <<a, b>>
    next_idx,           \* build_hierarchical_rules: index of the next rule
    blob,               \* the template container at out_path of encode_file
    context,            \* decode_template(context=)
    dictionary,         \* decode_template: tpl["dictionary"]
    drules,             \* decode_template: tpl["rules"]
    dseq,               \* decode_template: the split sequence
    idx,                \* decode_template: symbols of dseq written so far
    cache,              \* lru_cache of expand_symbol, least recently used first
    stack,              \* active bodies of expand_symbol (rule frames)
    req,                \* pending call of expand_symbol
    ret,                \* value just returned by expand_symbol
    calls,              \* how often the body of expand_symbol ran, per symbol
    out_file,           \* the file at out_path of decode_template
    err                 \* the exception that ended the run, "" if none

vars == <<pc, input, chunk_size, contexts, min_pair_freq, max_new_symbols,
          dict_file, global_dict, hash_to_sym, sequence, local_symbol_map,
          total_chunks, template_dict, seen, pos, seq, rules, next_idx, blob,
          context, dictionary, drules, dseq, idx, cache, stack, req, ret,
          calls, out_file, err>>

encVars == <<input, chunk_size, contexts, min_pair_freq, max_new_symbols,
             dict_file>>
passVars == <<global_dict, hash_to_sym, sequence, local_symbol_map,
              total_chunks, template_dict, seen, pos>>
ruleVars == <<seq, rules, next_idx>>
decVars == <<context, dictionary, drules, dseq, idx, cache, stack, req, ret,
             calls, out_file, err>>

(***************************************************************************)
(* Bounds of the model.                                                    *)
(***************************************************************************)
MaxInputLen == 5        \* bytes of an input file
MaxChunkSize == 2       \* chunk sizes 1..MaxChunkSize
MaxPairFreq == 2        \* min_pair_freq 1..MaxPairFreq
MaxSeqLen == 5          \* SpecRules: length of the sequence compressed
MaxNewSymbols == 2      \* SpecRules: max_new_symbols 0..MaxNewSymbols
MaxTplSeq == 2          \* SpecDecode: symbols in the template's sequence
\* The interpreter's recursion limit (sys.getrecursionlimit(), 1000 frames
\* by default) counted in nested bodies of expand_symbol; scaled down so
\* that a nesting deeper than the limit fits the bounded inputs.
RecursionLimit == 4
\* lru_cache(maxsize=65536) at decode.py:28; scaled down so that a template
\* with more distinct symbols than the cache holds fits the bounded inputs.
maxsize == 2

(***************************************************************************)
(* Program constants.                                                      *)
(***************************************************************************)
DEFAULT_MIN_FREQ == 2
DefaultMaxNewSymbols == 10000

Byte == {65, 66}
Min(a, b) == IF a <= b THEN a ELSE b

BytesUpTo(n) == UNION {[1..k -> Byte] : k \in 0..n}

(***************************************************************************)
(* Chunker and fingerprinter.                                              *)
(***************************************************************************)
RECURSIVE stream_chunks(_, _)
stream_chunks(data, size) ==
    IF data = <<>> THEN <<>>
    ELSE LET n == Min(size, Len(data))
         IN  <<SubSeq(data, 1, n)>> \o
             stream_chunks(SubSeq(data, n + 1, Len(data)), size)

\* sha256(b).hexdigest()[:12], collisions assumed absent: an injective
\* digest of the bytes (base-257 digits, none zero).
RECURSIVE short_hash(_)
short_hash(b) ==
    IF b = <<>> THEN 0 ELSE (Head(b) + 1) + 257 * short_hash(Tail(b))

(***************************************************************************)
(* Hex payloads: bytes.hex() and bytes.fromhex().  A hex string is a       *)
(* sequence of characters; 0..15 are the hex digits, any other number is a *)
(* character that is no hex digit.                                         *)
(***************************************************************************)
RECURSIVE hex(_)
hex(b) ==
    IF b = <<>> THEN <<>>
    ELSE <<Head(b) \div 16, Head(b) % 16>> \o hex(Tail(b))

IsHex(s) ==
    /\ Len(s) % 2 = 0
    /\ \A i \in DOMAIN s : s[i] \in 0..15

RECURSIVE fromhex(_)
fromhex(s) ==
    IF s = <<>> THEN <<>>
    ELSE <<16 * s[1] + s[2]>> \o fromhex(SubSeq(s, 3, Len(s)))

(***************************************************************************)
(* Ordered string-keyed maps (dict): a sequence of <<key, value>> with     *)
(* distinct keys, in insertion order.                                      *)
(***************************************************************************)
Keys(e) == {e[i][1] : i \in DOMAIN e}
Get(e, k) == e[CHOOSE i \in DOMAIN e : e[i][1] = k][2]
SetKey(e, k, v) ==
    IF k \in Keys(e)
    THEN [i \in DOMAIN e |-> IF e[i][1] = k THEN <<k, v>> ELSE e[i]]
    ELSE Append(e, <<k, v>>)

\* d[sym][ctx] = v on a defaultdict(dict)
SetItem(td, sym, ctx, v) ==
    IF sym \in DOMAIN td
    THEN [td EXCEPT ![sym] = SetKey(td[sym], ctx, v)]
    ELSE td @@ (sym :> <<<<ctx, v>>>>)

(***************************************************************************)
(* build_global_dict                                                       *)
(***************************************************************************)
RECURSIVE AllChunks(_, _)
AllChunks(paths, size) ==
    IF paths = <<>> THEN <<>>
    ELSE stream_chunks(Head(paths), size) \o AllChunks(Tail(paths), size)

build_global_dict(paths, size, min_freq) ==
    LET cs == AllChunks(paths, size)
        hs == {short_hash(cs[i]) : i \in DOMAIN cs}
        counts == [h \in hs |->
                     Cardinality({i \in DOMAIN cs : short_hash(cs[i]) = h})]
        sample_map == [h \in hs |->
                     cs[CHOOSE i \in DOMAIN cs :
                          /\ short_hash(cs[i]) = h
                          /\ \A j \in 1..(i - 1) : short_hash(cs[j]) # h]]
        kept == {h \in hs : counts[h] >= min_freq}
    IN  [sym \in {<<"S", h>> : h \in kept} |->
            << <<"DEFAULT", hex(sample_map[sym[2]])>>,
               <<"freq", counts[sym[2]]>> >>]

NoDict == [present |-> FALSE, entries |-> <<>>]

\* The sample corpora a dictionary is built from.
SamplePaths ==
    { << <<65, 65>> >>,
      << <<65, 66, 65, 66>>, <<66>> >> }

(***************************************************************************)
(* encode_file: dictionary load and first streaming pass.                  *)
(***************************************************************************)
Chunks == stream_chunks(input, chunk_size)

\* {k: v for k, v in info.items() if k != "freq"}
StripFreq(info) == SelectSeq(info, LAMBDA kv : kv[1] # "freq")

LoadedDict(file) ==
    IF file.present
    THEN [sym \in DOMAIN file.entries |-> StripFreq(file.entries[sym])]
    ELSE <<>>

HashToSym(gd) ==
    LET hs == {sym[2] : sym \in {s \in DOMAIN gd : s[1] = "S"}}
    IN  [h \in hs |-> <<"S", h>>]

\* The lookup without the global branch of line 122.
SymbolForLocalOnly(h, h2s, lsm) ==
    IF h \in DOMAIN lsm THEN lsm[h] ELSE <<"L", h>>

\* The symbol a chunk of fingerprint h is given.
SymbolFor(h, h2s, lsm) ==
    IF h \in DOMAIN h2s THEN h2s[h]
    ELSE IF h \in DOMAIN lsm THEN lsm[h]
    ELSE <<"L", h>>

\* local_symbol_map after the chunk of fingerprint h.
LocalMapAfter(h, h2s, lsm) ==
    IF h \in DOMAIN h2s \/ h \in DOMAIN lsm THEN lsm
    ELSE lsm @@ (h :> <<"L", h>>)

NoReq == [some |-> FALSE, sym |-> <<"", 0>>]
NoRet == [some |-> FALSE, val |-> <<>>]
NoFile == [exists |-> FALSE, data |-> <<>>]
NoBlob == [written |-> FALSE, ok |-> FALSE, dictionary |-> <<>>,
           rules |-> <<>>, sequence |-> <<>>]

DecoderIdle ==
    /\ dictionary = <<>>
    /\ drules = <<>>
    /\ dseq = <<>>
    /\ idx = 0
    /\ cache = <<>>
    /\ stack = <<>>
    /\ req = NoReq
    /\ ret = NoRet
    /\ calls = <<>>
    /\ out_file = NoFile
    /\ err = ""

EncoderIdle ==
    /\ global_dict = <<>>
    /\ hash_to_sym = <<>>
    /\ sequence = <<>>
    /\ local_symbol_map = <<>>
    /\ total_chunks = 0
    /\ template_dict = <<>>
    /\ seen = {}
    /\ pos = 0

ContextLists ==
    { <<>>, <<"DEFAULT">>, <<"VIDEO">>, <<"VIDEO", "TEXT">> }

Init ==
    /\ pc = "load"
    /\ input \in BytesUpTo(MaxInputLen)
    /\ chunk_size \in 1..MaxChunkSize
    /\ contexts \in ContextLists
    /\ min_pair_freq \in 1..MaxPairFreq
    /\ max_new_symbols = DefaultMaxNewSymbols
    /\ \E use \in BOOLEAN, paths \in SamplePaths, size \in 1..MaxChunkSize :
          dict_file = IF use
                      THEN [present |-> TRUE,
                            entries |-> build_global_dict(paths, size,
                                                          DEFAULT_MIN_FREQ)]
                      ELSE NoDict
    /\ EncoderIdle
    /\ seq = <<>> /\ rules = <<>> /\ next_idx = 0
    /\ blob = NoBlob
    /\ context \in {"DEFAULT", "VIDEO", "TEXT"}
    /\ DecoderIdle

LoadDict ==
    /\ pc = "load"
    /\ global_dict' = LoadedDict(dict_file)
    /\ hash_to_sym' = HashToSym(LoadedDict(dict_file))
    /\ pc' = "pass1"
    /\ UNCHANGED <<encVars, sequence, local_symbol_map, total_chunks,
                   template_dict, seen, pos, ruleVars, blob, decVars>>

EncodeChunk ==
    /\ pc = "pass1"
    /\ pos < Len(Chunks)
    /\ LET h == short_hash(Chunks[pos + 1])
       IN  /\ sequence' = Append(sequence,
                                 SymbolFor(h, hash_to_sym, local_symbol_map))
           /\ local_symbol_map' = LocalMapAfter(h, hash_to_sym,
                                                local_symbol_map)
    /\ total_chunks' = total_chunks + 1
    /\ pos' = pos + 1
    /\ UNCHANGED <<pc, encVars, global_dict, hash_to_sym, template_dict, seen,
                   ruleVars, blob, decVars>>

\* build_hierarchical_rules is entered: seq = sequence[:], rules = {}.
EnterRules ==
    /\ pc' = "rules"
    /\ seq' = sequence
    /\ rules' = <<>>
    /\ next_idx' = 0

\* End of the first pass: the global entries go into template_dict, and the
\* second pass starts when there are local symbols.
BeginCapture ==
    /\ pc = "pass1"
    /\ pos = Len(Chunks)
    /\ template_dict' = global_dict
    /\ seen' = {}
    /\ pos' = 0
    /\ IF DOMAIN local_symbol_map # {}
       THEN pc' = "pass2" /\ UNCHANGED ruleVars
       ELSE EnterRules
    /\ UNCHANGED <<encVars, global_dict, hash_to_sym, sequence,
                   local_symbol_map, total_chunks, blob, decVars>>

RECURSIVE StoreContexts(_, _, _, _)
StoreContexts(td, sym, ctxs, payload) ==
    IF ctxs = <<>> THEN td
    ELSE StoreContexts(SetItem(td, sym, Head(ctxs), payload), sym,
                       Tail(ctxs), payload)

LocalSyms(lsm) == {lsm[h] : h \in DOMAIN lsm}

CaptureChunk ==
    /\ pc = "pass2"
    /\ pos < Len(Chunks)
    /\ LET chunk == Chunks[pos + 1]
           h == short_hash(chunk)
           take == h \in DOMAIN local_symbol_map /\ h \notin seen
           seen2 == IF take THEN seen \cup {h} ELSE seen
           stop == Cardinality(seen2) = Cardinality(LocalSyms(local_symbol_map))
       IN  /\ template_dict' =
                 IF take
                 THEN StoreContexts(template_dict, local_symbol_map[h],
                                    contexts, hex(chunk))
                 ELSE template_dict
           /\ seen' = seen2
           /\ pos' = pos + 1
           /\ IF stop \/ pos + 1 = Len(Chunks)
              THEN EnterRules
              ELSE UNCHANGED <<pc, ruleVars>>
    /\ UNCHANGED <<encVars, global_dict, hash_to_sym, sequence,
                   local_symbol_map, total_chunks, blob, decVars>>

(***************************************************************************)
(* build_hierarchical_rules                                                *)
(***************************************************************************)
\* pairs = Counter(); pairs[(seq[i], seq[i+1])] += 1 for i in range(len-1):
\* an insertion-ordered map pair -> count.
Bump(pairs, p) ==
    IF p \in Keys(pairs) THEN SetKey(pairs, p, Get(pairs, p) + 1)
    ELSE Append(pairs, <<p, 1>>)

\* The loop over i; acc is bound to the counter after step i, so that it is
\* computed once.
RECURSIVE CountFrom(_, _, _)
CountFrom(s, i, pairs) ==
    IF i >= Len(s) THEN pairs
    ELSE CHOOSE r \in {CountFrom(s, i + 1, acc) :
                          acc \in {Bump(pairs, <<s[i], s[i + 1]>>)}} : TRUE

CountPairs(s) == CountFrom(s, 1, <<>>)

\* Which of two items max() keeps: the earlier one unless the later one is
\* strictly larger.
LastWins(best, item) == item[2] >= best[2]
Keeps(best, item) == item[2] > best[2]

\* pairs.most_common(1)[0]: heapq.nlargest(1, items, key=count), which is
\* max(items, key=count), the first item of the largest count.
RECURSIVE MaxFrom(_, _, _)
MaxFrom(pairs, i, best) ==
    IF i > Len(pairs) THEN best
    ELSE CHOOSE r \in {MaxFrom(pairs, i + 1, b) :
                          b \in {IF Keeps(best, pairs[i]) THEN pairs[i]
                                                           ELSE best}} : TRUE

most_common(pairs) == MaxFrom(pairs, 2, pairs[1])

\* The break of line 80.
LateStop(freq, nrules, minfreq, maxnew) == freq < minfreq \/ nrules > maxnew
StopCondition(freq, nrules, minfreq, maxnew) ==
    freq < minfreq \/ nrules >= maxnew

\* new_sym: the name f"R{next_idx}" and next_idx += 1.
StuckIdx(n) == n
IdxAfter(n) == n + 1

\* The rewrite of lines 85-95.
RECURSIVE Rewrite(_, _, _, _, _)
Rewrite(s, i, a, b, ns) ==
    IF i > Len(s) THEN <<>>
    ELSE IF i < Len(s) /\ s[i] = a /\ s[i + 1] = b
         THEN <<ns>> \o Rewrite(s, i + 2, a, b, ns)
         ELSE <<s[i]>> \o Rewrite(s, i + 1, a, b, ns)

\* rules[ns] = [a, b]
SetRule(rs, ns, pair) ==
    IF ns \in DOMAIN rs THEN [rs EXCEPT ![ns] = pair] ELSE rs @@ (ns :> pair)

\* One pass of the while loop that creates a rule.
CreateRule ==
    /\ pc = "rules"
    /\ Len(seq) >= 2
    /\ LET top == most_common(CountPairs(seq))
           a == top[1][1]
           b == top[1][2]
           ns == <<"R", next_idx>>
       IN  /\ ~StopCondition(top[2], Cardinality(DOMAIN rules),
                             min_pair_freq, max_new_symbols)
           /\ next_idx' = IdxAfter(next_idx)
           /\ rules' = SetRule(rules, ns, <<a, b>>)
           /\ seq' = Rewrite(seq, 1, a, b, ns)
    /\ UNCHANGED <<pc, encVars, passVars, blob, decVars>>

\* The pass that breaks out of the loop: no pairs, or the stop condition.
StopRules ==
    /\ pc = "rules"
    /\ \/ Len(seq) < 2
       \/ /\ Len(seq) >= 2
          /\ LET top == most_common(CountPairs(seq))
             IN  StopCondition(top[2], Cardinality(DOMAIN rules),
                               min_pair_freq, max_new_symbols)
    /\ pc' = "returned"
    /\ UNCHANGED <<encVars, passVars, ruleVars, blob, decVars>>

(***************************************************************************)
(* The template: ",".join(seq) and seq_str.split(",").  A string of symbol *)
(* names is the sequence of its names and separators.                      *)
(***************************************************************************)
Comma == <<",", 0>>
EmptyName == <<"", 0>>

RECURSIVE join(_)
join(s) ==
    IF s = <<>> THEN <<>>
    ELSE IF Len(s) = 1 THEN <<s[1]>>
    ELSE <<s[1], Comma>> \o join(Tail(s))

\* The name between two separators.
NameOf(run) == IF run = <<>> THEN EmptyName ELSE run[1]

RECURSIVE split(_)
split(str) ==
    IF \A i \in DOMAIN str : str[i] # Comma THEN <<NameOf(str)>>
    ELSE LET i == CHOOSE k \in DOMAIN str :
                     /\ str[k] = Comma
                     /\ \A j \in 1..(k - 1) : str[j] # Comma
         IN  <<NameOf(SubSeq(str, 1, i - 1))>> \o
             split(SubSeq(str, i + 1, Len(str)))

\* template_obj, json.dumps, zlib.compress, f.write(blob)
WriteTemplate ==
    /\ pc = "returned"
    /\ blob' = [written |-> TRUE, ok |-> TRUE, dictionary |-> template_dict,
                rules |-> rules, sequence |-> join(seq)]
    /\ pc' = "decode"
    /\ UNCHANGED <<encVars, passVars, ruleVars, decVars>>

(***************************************************************************)
(* decode_template and expand_symbol.                                      *)
(***************************************************************************)
Raise == [ok |-> FALSE, val |-> <<>>]
Return(b) == [ok |-> TRUE, val |-> b]

\* bytes.fromhex(v) outside a try: the bytes, or ValueError.
FromHexOrRaise(v) == IF IsHex(v) THEN Return(fromhex(v)) ELSE Raise

\* for v in e.values(): try: return bytes.fromhex(v) / except: continue;
\* return b""
RECURSIVE FirstUsable(_, _)
FirstUsable(e, i) ==
    IF i > Len(e) THEN <<>>
    ELSE IF IsHex(e[i][2]) THEN fromhex(e[i][2])
    ELSE FirstUsable(e, i + 1)

\* The terminal branch of expand_symbol with the "DEFAULT" step left out.
TerminalNoDefault(e, c) ==
    IF c \in Keys(e) THEN FromHexOrRaise(Get(e, c))
    ELSE Return(FirstUsable(e, 1))

\* The terminal branch of expand_symbol, lines 31-41.
ExpandTerminalEntry(e, c) ==
    IF c \in Keys(e) THEN FromHexOrRaise(Get(e, c))
    ELSE IF "DEFAULT" \in Keys(e) THEN FromHexOrRaise(Get(e, "DEFAULT"))
    ELSE Return(FirstUsable(e, 1))

\* lru_cache: a hit moves the key to the most recently used end; a new key
\* evicts the least recently used one when the cache is full.
CacheKeys(c) == {c[i][1] : i \in DOMAIN c}
CacheGet(c, sym) == c[CHOOSE i \in DOMAIN c : c[i][1] = sym][2]
CacheTouch(c, sym) ==
    SelectSeq(c, LAMBDA kv : kv[1] # sym) \o <<<<sym, CacheGet(c, sym)>>>>
CacheStore(c, sym, val) ==
    IF sym \in CacheKeys(c) THEN c
    ELSE IF Len(c) >= maxsize THEN Append(Tail(c), <<sym, val>>)
    ELSE Append(c, <<sym, val>>)

Count(sym) == IF sym \in DOMAIN calls THEN calls[sym] ELSE 0
Called(sym) ==
    IF sym \in DOMAIN calls THEN [calls EXCEPT ![sym] = @ + 1]
    ELSE calls @@ (sym :> 1)

Top == stack[Len(stack)]
Pop == SubSeq(stack, 1, Len(stack) - 1)

\* zlib.decompress / json.loads fail: nothing has been opened yet.
DecodeCorrupt ==
    /\ pc = "decode"
    /\ ~blob.ok
    /\ pc' = "failed"
    /\ err' = "ContainerError"
    /\ UNCHANGED <<encVars, passVars, ruleVars, blob, context, dictionary,
                   drules, dseq, idx, cache, stack, req, ret, calls,
                   out_file>>

\* Lines 18-24 and 46-49: the template is parsed and out_path opened "wb".
DecodeLoad ==
    /\ pc = "decode"
    /\ blob.ok
    /\ dictionary' = blob.dictionary
    /\ drules' = blob.rules
    /\ dseq' = IF blob.sequence # <<>> THEN split(blob.sequence) ELSE <<>>
    /\ out_file' = [exists |-> TRUE, data |-> <<>>]
    /\ pc' = "loop"
    /\ UNCHANGED <<encVars, passVars, ruleVars, blob, context, idx, cache,
                   stack, req, ret, calls, err>>

Idle == ~req.some /\ ~ret.some /\ stack = <<>>

\* for s in seq: b = expand_symbol(s)
NextSymbol ==
    /\ pc = "loop"
    /\ Idle
    /\ idx < Len(dseq)
    /\ req' = [some |-> TRUE, sym |-> dseq[idx + 1]]
    /\ UNCHANGED <<pc, encVars, passVars, ruleVars, blob, context, dictionary,
                   drules, dseq, idx, cache, stack, ret, calls, out_file, err>>

\* f_out.write(b)
WriteOut ==
    /\ pc = "loop"
    /\ ret.some
    /\ stack = <<>>
    /\ out_file' = [out_file EXCEPT !.data = @ \o ret.val]
    /\ idx' = idx + 1
    /\ ret' = NoRet
    /\ UNCHANGED <<pc, encVars, passVars, ruleVars, blob, context, dictionary,
                   drules, dseq, cache, stack, req, calls, err>>

\* The loop is over and the file closed.
Finish ==
    /\ pc = "loop"
    /\ Idle
    /\ idx = Len(dseq)
    /\ pc' = "done"
    /\ UNCHANGED <<encVars, passVars, ruleVars, blob, decVars>>

\* expand_symbol(sym) answered by the lru_cache wrapper.
CacheHit ==
    /\ pc = "loop"
    /\ req.some
    /\ req.sym \in CacheKeys(cache)
    /\ ret' = [some |-> TRUE, val |-> CacheGet(cache, req.sym)]
    /\ cache' = CacheTouch(cache, req.sym)
    /\ req' = NoReq
    /\ UNCHANGED <<pc, encVars, passVars, ruleVars, blob, context, dictionary,
                   drules, dseq, idx, stack, calls, out_file, err>>

Miss == pc = "loop" /\ req.some /\ req.sym \notin CacheKeys(cache)

\* The body cannot be entered: the interpreter's recursion limit is reached.
Overflow ==
    /\ Miss
    /\ Len(stack) >= RecursionLimit
    /\ pc' = "failed"
    /\ err' = "RecursionError"
    /\ UNCHANGED <<encVars, passVars, ruleVars, blob, context, dictionary,
                   drules, dseq, idx, cache, stack, req, ret, calls,
                   out_file>>

\* The body on a dictionary symbol.
ExpandTerminal ==
    /\ Miss
    /\ Len(stack) < RecursionLimit
    /\ req.sym \in DOMAIN dictionary
    /\ calls' = Called(req.sym)
    /\ LET r == ExpandTerminalEntry(dictionary[req.sym], context)
       IN  IF r.ok
           THEN /\ ret' = [some |-> TRUE, val |-> r.val]
                /\ cache' = CacheStore(cache, req.sym, r.val)
                /\ req' = NoReq
                /\ UNCHANGED <<pc, err>>
           ELSE /\ pc' = "failed"
                /\ err' = "ValueError"
                /\ UNCHANGED <<ret, cache, req>>
    /\ UNCHANGED <<encVars, passVars, ruleVars, blob, context, dictionary,
                   drules, dseq, idx, stack, out_file>>

\* The body on a rule: a, b = rules[sym]; expand_symbol(a) is called.
ExpandRule ==
    /\ Miss
    /\ Len(stack) < RecursionLimit
    /\ req.sym \notin DOMAIN dictionary
    /\ req.sym \in DOMAIN drules
    /\ calls' = Called(req.sym)
    /\ stack' = Append(stack, [sym |-> req.sym, phase |-> "left",
                               acc |-> <<>>])
    /\ req' = [some |-> TRUE, sym |-> drules[req.sym][1]]
    /\ UNCHANGED <<pc, encVars, passVars, ruleVars, blob, context, dictionary,
                   drules, dseq, idx, cache, ret, out_file, err>>

\* The body on a symbol of neither table: b"".
ExpandUnknown ==
    /\ Miss
    /\ Len(stack) < RecursionLimit
    /\ req.sym \notin DOMAIN dictionary
    /\ req.sym \notin DOMAIN drules
    /\ calls' = Called(req.sym)
    /\ ret' = [some |-> TRUE, val |-> <<>>]
    /\ cache' = CacheStore(cache, req.sym, <<>>)
    /\ req' = NoReq
    /\ UNCHANGED <<pc, encVars, passVars, ruleVars, blob, context, dictionary,
                   drules, dseq, idx, stack, out_file, err>>

\* expand_symbol(a) returned inside a rule body: expand_symbol(b) is called.
ReturnLeft ==
    /\ pc = "loop"
    /\ ret.some
    /\ stack # <<>>
    /\ Top.phase = "left"
    /\ stack' = Append(Pop, [sym |-> Top.sym, phase |-> "right",
                             acc |-> ret.val])
    /\ req' = [some |-> TRUE, sym |-> drules[Top.sym][2]]
    /\ ret' = NoRet
    /\ UNCHANGED <<pc, encVars, passVars, ruleVars, blob, context, dictionary,
                   drules, dseq, idx, cache, calls, out_file, err>>

\* expand_symbol(b) returned: the rule body returns the concatenation, which
\* the wrapper stores.
ReturnRight ==
    /\ pc = "loop"
    /\ ret.some
    /\ stack # <<>>
    /\ Top.phase = "right"
    /\ ret' = [some |-> TRUE, val |-> Top.acc \o ret.val]
    /\ cache' = CacheStore(cache, Top.sym, Top.acc \o ret.val)
    /\ stack' = Pop
    /\ UNCHANGED <<pc, encVars, passVars, ruleVars, blob, context, dictionary,
                   drules, dseq, idx, req, calls, out_file, err>>

Decode ==
    \/ DecodeLoad
    \/ NextSymbol
    \/ CacheHit
    \/ Overflow
    \/ ExpandTerminal
    \/ ExpandRule
    \/ ExpandUnknown
    \/ ReturnLeft
    \/ ReturnRight
    \/ WriteOut
    \/ Finish

Next ==
    \/ LoadDict
    \/ EncodeChunk
    \/ BeginCapture
    \/ CaptureChunk
    \/ CreateRule
    \/ StopRules
    \/ WriteTemplate
    \/ Decode

Spec == Init /\ [][Next]_vars

(***************************************************************************)
(* SpecRules: build_hierarchical_rules called on any sequence of S/L       *)
(* symbols with any budget.  The call is made and the loop keeps running:  *)
(* the function is sequential code, so a pass that can run does run.       *)
(***************************************************************************)
RuleAlphabet == { <<"S", 1>>, <<"L", 2>>, <<"L", 3>> }

InitRules ==
    /\ pc = "idle"
    /\ input = <<>>
    /\ chunk_size = 1
    /\ contexts = <<>>
    /\ min_pair_freq = 1
    /\ max_new_symbols = 0
    /\ dict_file = NoDict
    /\ EncoderIdle
    /\ seq = <<>> /\ rules = <<>> /\ next_idx = 0
    /\ blob = NoBlob
    /\ context = "DEFAULT"
    /\ DecoderIdle

\* build_hierarchical_rules(sequence, max_new_symbols, min_pair_freq) is
\* called: seq = sequence[:], rules = {}, next_idx = 0.
CallRules ==
    /\ pc = "idle"
    /\ sequence' \in UNION {[1..k -> RuleAlphabet] : k \in 0..MaxSeqLen}
    /\ min_pair_freq' \in 1..MaxPairFreq
    /\ max_new_symbols' \in 0..MaxNewSymbols
    /\ pc' = "rules"
    /\ seq' = sequence'
    /\ rules' = <<>>
    /\ next_idx' = 0
    /\ UNCHANGED <<input, chunk_size, contexts, dict_file, global_dict,
                   hash_to_sym, local_symbol_map, total_chunks, template_dict,
                   seen, pos, blob, decVars>>

NextRules ==
    \/ CallRules
    \/ CreateRule
    \/ StopRules

SpecRules == InitRules /\ [][NextRules]_vars /\ WF_vars(NextRules)

(***************************************************************************)
(* SpecDecode: decode_template on any template of a bounded family, also   *)
(* templates no encoder wrote: cyclic rules, payloads that are not hex,    *)
(* entries without contexts, symbols of neither table, a corrupt container.*)
(***************************************************************************)
L1 == <<"L", 1>>
L2 == <<"L", 2>>
L9 == <<"L", 9>>
R0 == <<"R", 0>>
R1 == <<"R", 1>>

EntryContexts == {"VIDEO", "DEFAULT", "TEXT"}
GoodHex(c) ==
    CASE c = "VIDEO" -> hex(<<65>>)
      [] c = "DEFAULT" -> hex(<<66>>)
      [] OTHER -> hex(<<65, 65>>)
BadHex == <<16, 16>>
MaxEntryLen == 2

EntryItems ==
    {<<c, GoodHex(c)>> : c \in EntryContexts} \cup
    {<<c, BadHex>> : c \in EntryContexts}

Entries ==
    {e \in UNION {[1..k -> EntryItems] : k \in 0..MaxEntryLen} :
        \A i, j \in DOMAIN e : i # j => e[i][1] # e[j][1]}

RuleSets ==
    { (R0 :> <<L1, L2>>) @@ (R1 :> <<L2, R0>>),
      (R0 :> <<R0, L1>>) @@ (R1 :> <<L2, R0>>),
      (R0 :> <<L1, R1>>) @@ (R1 :> <<L2, R0>>) }

TplSymbols == {L1, L2, L9, R0, R1}

InitDecode ==
    /\ pc = "decode"
    /\ input = <<>>
    /\ chunk_size = 1
    /\ contexts = <<>>
    /\ min_pair_freq = 1
    /\ max_new_symbols = DefaultMaxNewSymbols
    /\ dict_file = NoDict
    /\ EncoderIdle
    /\ seq = <<>> /\ rules = <<>> /\ next_idx = 0
    /\ \E e1 \in Entries, e2 \in {<<<<"DEFAULT", GoodHex("DEFAULT")>>>>,
                                  <<<<"DEFAULT", BadHex>>>>},
          rs \in RuleSets,
          s \in UNION {[1..k -> TplSymbols] : k \in 0..MaxTplSeq},
          good \in BOOLEAN :
          blob = [written |-> TRUE, ok |-> good,
                  dictionary |-> (L1 :> e1) @@ (L2 :> e2),
                  rules |-> rs, sequence |-> join(s)]
    /\ context \in {"VIDEO", "DEFAULT"}
    /\ DecoderIdle

NextDecode ==
    \/ DecodeCorrupt
    \/ Decode

SpecDecode == InitDecode /\ [][NextDecode]_vars

(***************************************************************************)
(* The claims.                                                             *)
(***************************************************************************)
Range(s) == {s[i] : i \in DOMAIN s}

\* C1 (Spec): decode_template, run with a context of the contexts list on
\* the template encode_file wrote, ends having written exactly the input.
C1_RoundTrip ==
    (pc \in {"done", "failed"} /\ context \in Range(contexts)) =>
        (pc = "done" /\ out_file.exists /\ out_file.data = input)

FinalSeq == IF blob.sequence # <<>> THEN split(blob.sequence) ELSE <<>>
Referenced ==
    Range(FinalSeq) \cup
    UNION {Range(blob.rules[r]) : r \in DOMAIN blob.rules}

\* C2 (Spec): in a written template every symbol of the sequence and every
\* rule operand is a key of exactly one of dictionary and rules.
C2_NoDangling ==
    blob.written =>
        \A sym \in Referenced :
            (sym \in DOMAIN blob.dictionary) # (sym \in DOMAIN blob.rules)

Occurrences(s, x) == Cardinality({i \in DOMAIN s : s[i] = x})

\* The chunks the first pass has consumed.
Consumed == IF pc = "pass1" THEN pos ELSE Len(Chunks)

\* The symbol the claim gives a chunk: S<fingerprint> when the global
\* dictionary file has that fingerprint, L<fingerprint> otherwise.
InGlobal(c) ==
    dict_file.present /\ <<"S", short_hash(c)>> \in DOMAIN dict_file.entries
ClaimedSymbol(c) ==
    IF InGlobal(c) THEN <<"S", short_hash(c)>> ELSE <<"L", short_hash(c)>>

\* C5 (Spec): the initial sequence has one symbol per chunk in stream order;
\* a chunk whose bytes occur k times has one symbol (global if its
\* fingerprint is in the global dictionary, without a local allocation,
\* local otherwise) and that symbol occurs k times.
C5_Dedup ==
    (pc # "load") =>
        LET cs == SubSeq(Chunks, 1, Consumed)
        IN  /\ Len(sequence) = Len(cs)
            /\ total_chunks = Len(cs)
            /\ \A i \in DOMAIN cs :
                  /\ sequence[i] = ClaimedSymbol(cs[i])
                  /\ Occurrences(sequence, sequence[i]) = Occurrences(cs, cs[i])
            /\ DOMAIN local_symbol_map =
                  {short_hash(cs[i]) : i \in {j \in DOMAIN cs : ~InGlobal(cs[j])}}
            /\ \A h \in DOMAIN local_symbol_map :
                  local_symbol_map[h] = <<"L", h>>

\* C5: a chunk that repeats, beside a global and a local symbol.
C5_Witness ==
    /\ pc = "rules"
    /\ \E i, j \in DOMAIN sequence : i # j /\ sequence[i] = sequence[j]
    /\ \E i, j \in DOMAIN sequence :
          sequence[i][1] = "S" /\ sequence[j][1] = "L"

\* C9 (Spec): in one decode run the body of expand_symbol runs at most once
\* for each symbol.
C9_Memoized == \A sym \in DOMAIN calls : calls[sym] <= 1

\* C3 (SpecRules): build_hierarchical_rules halts, after at most
\* max_new_symbols rule-creating passes, with at most max_new_symbols rules.
C3_Termination ==
    /\ <>(pc = "returned")
    /\ [](/\ next_idx <= max_new_symbols
          /\ Cardinality(DOMAIN rules) <= max_new_symbols)

\* C3: a run the budget stopped, not the frequency threshold.
C3_Witness ==
    /\ pc = "returned"
    /\ max_new_symbols > 0
    /\ Cardinality(DOMAIN rules) = max_new_symbols
    /\ Len(seq) >= 2
    /\ most_common(CountPairs(seq))[2] >= min_pair_freq

PairsOf(s) == {<<s[i], s[i + 1]>> : i \in 1..(Len(s) - 1)}
Freq(s, p) ==
    Cardinality({i \in 1..(Len(s) - 1) : <<s[i], s[i + 1]>> = p})
FirstAt(s, p) ==
    CHOOSE i \in 1..(Len(s) - 1) :
        /\ <<s[i], s[i + 1]>> = p
        /\ \A j \in 1..(i - 1) : <<s[j], s[j + 1]>> # p

\* C4 (SpecRules): the pair a pass turns into a rule has the largest
\* adjacent-pair frequency of the current sequence, every position counted,
\* and among the pairs of that frequency the earliest first occurrence.
C4_TieBreak ==
    [][next_idx' # next_idx =>
          LET p == rules'[<<"R", next_idx>>]
          IN  /\ p \in PairsOf(seq)
              /\ \A q \in PairsOf(seq) :
                    \/ Freq(seq, q) < Freq(seq, p)
                    \/ /\ Freq(seq, q) = Freq(seq, p)
                       /\ FirstAt(seq, p) <= FirstAt(seq, q)]_vars

\* C4: a first pass that had to break a tie.
C4_Witness ==
    /\ next_idx >= 1
    /\ \E q \in PairsOf(sequence) :
          /\ q # rules[<<"R", 0>>]
          /\ Freq(sequence, q) = Freq(sequence, rules[<<"R", 0>>])

RuleNames(n) == {<<"R", m>> : m \in 0..(n - 1)}

\* C10 (SpecRules): the rules are R0..R(next_idx-1), a rule once created is
\* never changed, and each operand of Rn is a symbol of the input sequence
\* or a rule Rm with m < n.
C10_Acyclic ==
    /\ [](/\ DOMAIN rules = RuleNames(next_idx)
          /\ \A n \in 0..(next_idx - 1) : \A k \in 1..2 :
                \/ rules[<<"R", n>>][k] \in Range(sequence)
                \/ rules[<<"R", n>>][k] \in RuleNames(n))
    /\ [][\A r \in DOMAIN rules :
             r \in DOMAIN rules' /\ rules'[r] = rules[r]]_vars

\* C10: a rule built on an earlier rule.
C10_Witness ==
    /\ next_idx >= 2
    /\ <<"R", 0>> \in Range(rules[<<"R", 1>>])

\* The call pending re-enters a symbol whose body is still running.
OnCycle == req.some /\ \E i \in DOMAIN stack : stack[i].sym = req.sym

\* C6 (SpecDecode): an expansion that runs into a cycle of the rules fails
\* with MalformedGrammar; it does not overflow the recursion stack.
C6_CycleDefended ==
    (pc = "failed" /\ OnCycle) => err = "MalformedGrammar"

\* C7 (SpecDecode): a decode that fails leaves no partial content at
\* out_path.
C7_NoPartialOutput ==
    pc = "failed" => (~out_file.exists \/ out_file.data = <<>>)

\* The bytes a hex payload stores; a payload that is not hex stores none.
NoBytes == <<"none">>
BytesOf(payload) ==
    IF \E b \in BytesUpTo(2) : hex(b) = payload
    THEN CHOOSE b \in BytesUpTo(2) : hex(b) = payload
    ELSE NoBytes
Usable(e) == {i \in DOMAIN e : IsHex(e[i][2])}

\* The result the claim gives a terminal entry e under context c.
Claimed(e, c) ==
    IF c \in Keys(e) THEN BytesOf(Get(e, c))
    ELSE IF "DEFAULT" \in Keys(e) THEN BytesOf(Get(e, "DEFAULT"))
    ELSE IF Usable(e) # {}
         THEN BytesOf(e[CHOOSE i \in Usable(e) :
                            \A j \in Usable(e) : i <= j][2])
    ELSE <<>>

\* C8 (SpecDecode): what expand_symbol returned for a terminal is the bytes
\* under the active context, else those under "DEFAULT", else those of the
\* first usable context in stored order, else the empty byte sequence.
C8_Fallback ==
    \A i \in DOMAIN cache :
        cache[i][1] \in DOMAIN dictionary =>
            cache[i][2] = Claimed(dictionary[cache[i][1]], context)

\* C8: an entry with only "DEFAULT", expanded under "VIDEO".
C8_Witness ==
    /\ context = "VIDEO"
    /\ L2 \in DOMAIN dictionary
    /\ Keys(dictionary[L2]) = {"DEFAULT"}
    /\ \E i \in DOMAIN cache : cache[i] = <<L2, <<66>>>>

====
